---- MODULE Spec2Model ----
(***************************************************************************)
(* Model of the expense-splitter backend: the debt simplifier              *)
(* (utils/debtSimplifier.js, simplifyDebts) and the routes of api/index.js *)
(* that feed it (POST /api/trips, POST /api/expenses,                      *)
(* GET /api/trips/:id/settle).                                             *)
(*                                                                         *)
(* Amounts are exact rationals.  An amount a is stored as the integer      *)
(* a * Cent * scale / 0.01: with scale = 1 one model unit is 0.01 / Cent   *)
(* (half a cent for Cent = 2); the settle route divides by the number of   *)
(* participants n, so there amounts are kept as numerators over n          *)
(* (scale = n).  Non-finite amounts are not modelled.                      *)
(***************************************************************************)
EXTENDS Integers, Sequences, FiniteSets, TLC

\* ---- bounds of the model
MaxPeople == 3          \* participants of a direct call of simplifyDebts
MaxAmt == 7             \* largest magnitude of an input amount, in model units
Cent == 2               \* model units per 0.01 (resolution of the amounts)
MaxParticipants == 2    \* length of trip.participants
MaxExpenses == 2        \* expenses stored for the trip
MaxExpenseAmt == 6      \* largest expense amount, in model units

PersonNames == <<"A", "B", "C", "D", "E">>
Amounts == (-MaxAmt)..MaxAmt

VARIABLES
    balances,     \* Object.entries(balances): sequence of [person, amount]
    scale,        \* denominator of the amounts (1, or participants.length)
    debtors, creditors, settlements, i, j,   \* locals of simplifyDebts
    pc,           \* "idle" | "start" | "loop" | "done"
    trip,         \* the Trip document with the id under observation
    expenses,     \* the Expense documents with that tripId, in insertion order
    response      \* last answer of the settle route: "none" | "404" | "200"

vars == <<balances, scale, debtors, creditors, settlements, i, j, pc,
          trip, expenses, response>>

NoTrip == [participants |-> <<>>, exists |-> FALSE]

\* ---- arithmetic helpers
Abs(x) == IF x < 0 THEN -x ELSE x
Min(x, y) == IF x < y THEN x ELSE y

\* 0.01 in model units
Eps(sc) == Cent * sc

\* Math.round(amount * 100) / 100 : floor(x / c + 1/2) * c
Round2(amount, sc) == ((2 * amount + Eps(sc)) \div (2 * Eps(sc))) * Eps(sc)

RECURSIVE SumAmounts(_)
SumAmounts(s) == IF s = <<>> THEN 0 ELSE Head(s).amount + SumAmounts(Tail(s))

\* ---- simplifyDebts
IsDebtor(amount, sc) == amount < -Eps(sc)
IsCreditorAbs(amount, sc) == Abs(amount) > Eps(sc)
IsCreditor(amount, sc) == amount > Eps(sc)

DebtorCmp(a, b) == a.amount - b.amount
CreditorCmp(a, b) == b.amount - a.amount

\* Array.prototype.sort: stable, ordered by the comparator's results
\* cmp[m][k] = compare(s[m], s[k])
StableSort(s, cmp) ==
    LET pos(k) == 1 + Cardinality({m \in 1..Len(s) :
                        \/ cmp[m][k] < 0
                        \/ cmp[m][k] = 0 /\ m < k})
    IN [p \in 1..Len(s) |-> s[CHOOSE k \in 1..Len(s) : pos(k) = p]]

SortDebtorsUnsorted(s) == s
SortDebtors(s) ==
    StableSort(s, [m \in 1..Len(s) |-> [k \in 1..Len(s) |-> DebtorCmp(s[m], s[k])]])
SortCreditorsReversed(s) ==
    StableSort(s, [m \in 1..Len(s) |-> [k \in 1..Len(s) |-> DebtorCmp(s[m], s[k])]])
SortCreditors(s) ==
    StableSort(s, [m \in 1..Len(s) |-> [k \in 1..Len(s) |-> CreditorCmp(s[m], s[k])]])

PartitionSortNoEps(bal, sc) ==
    [debtors |-> SortDebtors(SelectSeq(bal, LAMBDA e : e.amount < 0)),
     creditors |-> SortCreditors(SelectSeq(bal, LAMBDA e : e.amount > 0)),
     settlements |-> <<>>, i |-> 0, j |-> 0]

\* lines 7-21: partition, sort, initialise the cursors
PartitionSort(bal, sc) ==
    [debtors |-> SortDebtors(SelectSeq(bal, LAMBDA e : IsDebtor(e.amount, sc))),
     creditors |-> SortCreditors(SelectSeq(bal, LAMBDA e : IsCreditor(e.amount, sc))),
     settlements |-> <<>>, i |-> 0, j |-> 0]

LoopCond(st) == st.i < Len(st.debtors) /\ st.j < Len(st.creditors)

DebtorSettledExact(amount, sc) == amount = 0
DebtorSettled(amount, sc) == Abs(amount) < Eps(sc)
CreditorSettledStrict(amount, sc) == amount < 0
CreditorSettledAlways(amount, sc) == TRUE
CreditorSettled(amount, sc) == amount < Eps(sc)

\* lines 25-48: one iteration of the matching loop
LoopBody(st, sc) ==
    LET debtor == st.debtors[st.i + 1]
        creditor == st.creditors[st.j + 1]
        amount == Round2(Min(Abs(debtor.amount), creditor.amount), sc)
        dAmt == debtor.amount + amount
        cAmt == creditor.amount - amount
    IN [debtors |-> [st.debtors EXCEPT ![st.i + 1].amount = dAmt],
        creditors |-> [st.creditors EXCEPT ![st.j + 1].amount = cAmt],
        settlements |-> Append(st.settlements,
                          [from |-> debtor.person, to |-> creditor.person,
                           amount |-> amount, currency |-> "USD"]),
        i |-> IF DebtorSettled(dAmt, sc) THEN st.i + 1 ELSE st.i,
        j |-> IF CreditorSettled(cAmt, sc) THEN st.j + 1 ELSE st.j]

RECURSIVE RunLoop(_, _)
RunLoop(st, sc) == IF LoopCond(st) THEN RunLoop(LoopBody(st, sc), sc) ELSE st

SimplifyDebts(bal, sc) == RunLoop(PartitionSort(bal, sc), sc).settlements

\* ---- the engine as a state machine
Locals == [debtors |-> debtors, creditors |-> creditors,
           settlements |-> settlements, i |-> i, j |-> j]

SetLocals(st) ==
    /\ debtors' = st.debtors
    /\ creditors' = st.creditors
    /\ settlements' = st.settlements
    /\ i' = st.i
    /\ j' = st.j

Partition ==
    /\ pc = "start"
    /\ SetLocals(PartitionSort(balances, scale))
    /\ pc' = "loop"
    /\ UNCHANGED <<balances, scale, trip, expenses, response>>

Iterate ==
    /\ pc = "loop"
    /\ LoopCond(Locals)
    /\ SetLocals(LoopBody(Locals, scale))
    /\ UNCHANGED <<balances, scale, pc, trip, expenses, response>>

Return ==
    /\ pc = "loop"
    /\ ~LoopCond(Locals)
    /\ pc' = "done"
    /\ response' = IF trip.exists THEN "200" ELSE response
    /\ UNCHANGED <<balances, scale, debtors, creditors, settlements, i, j,
                   trip, expenses>>

\* ---- inputs of a direct call
\* Participant names are opaque to simplifyDebts, so the k-th enumerated key
\* is named PersonNames[k]; the amounts range over all of Amounts.
Entries(am) == [k \in DOMAIN am |-> [person |-> PersonNames[k], amount |-> am[k]]]

\* inputs of whole currency units: {A: -30, B: 10, C: 20},
\* {A: -10, B: -10, C: 20}, {A: 15, B: -15}, {A: -30, B: -10, C: 20}
Whole(x) == x * 100 * Cent
Scenarios == {<<Whole(-30), Whole(10), Whole(20)>>,
              <<Whole(-10), Whole(-10), Whole(20)>>,
              <<Whole(15), Whole(-15)>>,
              <<Whole(-30), Whole(-10), Whole(20)>>}

\* a caller invokes simplifyDebts(balances): every mapping of small amounts,
\* and the inputs of whole currency units above
Call ==
    /\ pc = "idle"
    /\ \/ \E n \in 0..MaxPeople : \E am \in [1..n -> Amounts] :
             balances' = Entries(am)
       \/ \E am \in Scenarios : balances' = Entries(am)
    /\ pc' = "start"
    /\ UNCHANGED <<scale, debtors, creditors, settlements, i, j,
                   trip, expenses, response>>

\* ---- api/index.js: the balances object of the settle route
HasKey(bal, k) == \E n \in 1..Len(bal) : bal[n].person = k
ValueOf(bal, k) == bal[CHOOSE n \in 1..Len(bal) : bal[n].person = k].amount
SetKey(bal, k, v) ==
    IF HasKey(bal, k)
    THEN [n \in 1..Len(bal) |-> IF bal[n].person = k
                                THEN [person |-> k, amount |-> v] ELSE bal[n]]
    ELSE Append(bal, [person |-> k, amount |-> v])

\* trip.participants.forEach(p => balances[p] = 0)
RECURSIVE ZeroBalances(_, _)
ZeroBalances(bal, ps) ==
    IF ps = <<>> THEN bal ELSE ZeroBalances(SetKey(bal, Head(ps), 0), Tail(ps))

\* trip.participants.forEach(person => { if (person !== exp.payer) ... })
\* split is the numerator of splitAmount = exp.amount / participants.length
RECURSIVE DebitOthers(_, _, _, _)
DebitOthers(bal, ps, payer, split) ==
    IF ps = <<>> THEN bal
    ELSE DebitOthers(IF Head(ps) # payer
                     THEN SetKey(bal, Head(ps), ValueOf(bal, Head(ps)) - split)
                     ELSE bal,
                     Tail(ps), payer, split)

PayerCredit(amount, n) == n * amount - amount

\* body of expenses.forEach, amounts as numerators over n = participants.length
ApplyExpense(bal, ps, exp) ==
    LET n == Len(ps)
        b1 == IF ~HasKey(bal, exp.payer) \/ ValueOf(bal, exp.payer) = 0
              THEN SetKey(bal, exp.payer, 0) ELSE bal
        b2 == SetKey(b1, exp.payer, ValueOf(b1, exp.payer) + PayerCredit(exp.amount, n))
    IN DebitOthers(b2, ps, exp.payer, exp.amount)

RECURSIVE ApplyExpenses(_, _, _)
ApplyExpenses(bal, ps, exps) ==
    IF exps = <<>> THEN bal
    ELSE ApplyExpenses(ApplyExpense(bal, ps, Head(exps)), ps, Tail(exps))

ComputeBalances(ps, exps) == ApplyExpenses(ZeroBalances(<<>>, ps), ps, exps)

TripPeople == {PersonNames[k] : k \in 1..MaxParticipants}
Payers == {PersonNames[k] : k \in 1..(MaxParticipants + 1)}

\* POST /api/trips : the trip whose id is later queried
PostTrip ==
    /\ pc \in {"idle", "done"}
    /\ ~trip.exists
    /\ \E n \in 1..MaxParticipants : \E ps \in [1..n -> TripPeople] :
          trip' = [participants |-> ps, exists |-> TRUE]
    /\ UNCHANGED <<balances, scale, debtors, creditors, settlements, i, j, pc,
                   expenses, response>>

\* POST /api/expenses with that tripId : any payer string is stored
PostExpense ==
    /\ pc \in {"idle", "done"}
    /\ Len(expenses) < MaxExpenses
    /\ \E amount \in 0..MaxExpenseAmt : \E payer \in Payers :
          expenses' = Append(expenses, [amount |-> amount, payer |-> payer])
    /\ UNCHANGED <<balances, scale, debtors, creditors, settlements, i, j, pc,
                   trip, response>>

\* GET /api/trips/:id/settle, up to the call of simplifyDebts
GetSettle ==
    /\ pc \in {"idle", "done"}
    /\ \/ /\ ~trip.exists
          /\ response' = "404"
          /\ UNCHANGED <<balances, scale, pc>>
       \/ /\ trip.exists
          /\ balances' = ComputeBalances(trip.participants, expenses)
          /\ scale' = Len(trip.participants)
          /\ pc' = "start"
          /\ response' = "none"
    /\ UNCHANGED <<debtors, creditors, settlements, i, j, trip, expenses>>

Init ==
    /\ balances = <<>>
    /\ scale = 1
    /\ debtors = <<>> /\ creditors = <<>> /\ settlements = <<>>
    /\ i = 0 /\ j = 0
    /\ pc = "idle"
    /\ trip = NoTrip
    /\ expenses = <<>>
    /\ response = "none"

Next == Call \/ Partition \/ Iterate \/ Return

Spec == Init /\ [][Next]_vars

NextApi == PostTrip \/ PostExpense \/ GetSettle \/ Partition \/ Iterate \/ Return

SpecApi == Init /\ [][NextApi]_vars

\* ---- bookkeeping used by the properties
Participants == {balances[n].person : n \in 1..Len(balances)}
PersonsOf(s) == {s[n].person : n \in 1..Len(s)}

\* what a participant has paid minus what it has received in setts
RECURSIVE NetPaid(_, _)
NetPaid(setts, p) ==
    IF setts = <<>> THEN 0
    ELSE (IF Head(setts).from = p THEN Head(setts).amount ELSE 0)
         - (IF Head(setts).to = p THEN Head(setts).amount ELSE 0)
         + NetPaid(Tail(setts), p)

\* balance of p after applying setts to a copy of the input balances
RemainingAfter(setts, p) == ValueOf(balances, p) + NetPaid(setts, p)
Remaining(p) == RemainingAfter(settlements, p)

Injections(n) == {f \in [1..n -> 1..n] : \A a, b \in 1..n : a # b => f[a] # f[b]}
\* the same mapping with its entries enumerated in every possible order
Reorderings(s) == {[k \in 1..Len(s) |-> s[f[k]]] : f \in Injections(Len(s))}

NoTies ==
    \A m, n \in 1..Len(balances) :
        m # n =>
          /\ IsDebtor(balances[m].amount, scale) /\ IsDebtor(balances[n].amount, scale)
               => balances[m].amount # balances[n].amount
          /\ IsCreditor(balances[m].amount, scale) /\ IsCreditor(balances[n].amount, scale)
               => balances[m].amount # balances[n].amount

\* ---- properties

\* C1: for a zero-sum input, applying every emitted settlement to a copy of
\* the input balances leaves every balance strictly within 0.01 of zero,
\* also for inputs of exactly -0.01 or +0.01.
ZeroSumSettles ==
    (pc = "done" /\ SumAmounts(balances) = 0)
        => \A p \in Participants : Abs(Remaining(p)) < Eps(scale)

\* C2: every settlement pushed has an amount > 0 that is a whole number of
\* hundredths, at every iteration and for every input.
AllAmountsPositive ==
    \A k \in 1..Len(settlements) :
        /\ settlements[k].amount > 0
        /\ settlements[k].amount % Eps(scale) = 0
AllAmountsPositiveWitness ==
    /\ pc = "done"
    /\ Len(settlements) = 2
    /\ SumAmounts(balances) # 0
    /\ \E n \in 1..Len(balances) : balances[n].amount % Eps(scale) # 0

\* C3 as stated: the settlement count never exceeds
\* debtorCount + creditorCount - 1.
IterationBoundAlways ==
    pc \in {"loop", "done"}
        => Len(settlements) <= Len(debtors) + Len(creditors) - 1
\* C3 amended: every iteration advances a cursor (the count is at most i + j,
\* the cursors stay within the lists), and the count is at most
\* debtorCount + creditorCount - 1 whenever one of the lists is non-empty.
IterationBound ==
    pc \in {"loop", "done"}
        => /\ Len(settlements) <= i + j
           /\ i <= Len(debtors) /\ j <= Len(creditors)
           /\ Len(debtors) + Len(creditors) >= 1
                => Len(settlements) <= Len(debtors) + Len(creditors) - 1
IterationBoundWitness ==
    /\ pc = "done"
    /\ Len(debtors) + Len(creditors) = 3
    /\ Len(settlements) = 2

\* C4: an empty input, or one whose balances are all within 0.01 of zero,
\* yields no settlement.
EmptyForSettledInput ==
    (pc = "done" /\ \A n \in 1..Len(balances) : Abs(balances[n].amount) < Eps(scale))
        => settlements = <<>>
EmptyForSettledInputWitness ==
    /\ pc = "done"
    /\ settlements = <<>>
    /\ \E m, n \in 1..Len(balances) : balances[m].amount < 0 /\ balances[n].amount > 0
    /\ \A n \in 1..Len(balances) : Abs(balances[n].amount) < Eps(scale)

\* C5 as stated: the result is the same whatever order the entries of the
\* mapping are enumerated in, ties included.
OrderIndependent ==
    pc = "done"
        => \A b \in Reorderings(balances) : SimplifyDebts(b, scale) = settlements
\* C5 amended: the result is the same whatever order the entries are
\* enumerated in, provided no two debtors and no two creditors have equal
\* amounts.
OrderIndependentNoTies ==
    (pc = "done" /\ NoTies)
        => \A b \in Reorderings(balances) : SimplifyDebts(b, scale) = settlements
OrderIndependentNoTiesWitness ==
    /\ pc = "done"
    /\ NoTies
    /\ Len(settlements) = 2
    /\ \E m, n \in 1..Len(balances) :
          /\ m < n
          /\ IsDebtor(balances[m].amount, scale)
          /\ balances[n].amount < balances[m].amount

\* C6: no settlement pays a participant to itself; the debtors and the
\* creditors lists share no participant.
NoSelfPayment ==
    /\ \A k \in 1..Len(settlements) : settlements[k].from # settlements[k].to
    /\ PersonsOf(debtors) \cap PersonsOf(creditors) = {}
NoSelfPaymentWitness ==
    /\ pc = "done"
    /\ Len(settlements) = 2
    /\ Len(debtors) = 1

\* C7: after partitioning, the debtors are exactly the participants with
\* amount <= -0.01 and the creditors exactly those with amount >= +0.01.
PartitionClosed ==
    pc \in {"loop", "done"}
        => \A n \in 1..Len(balances) :
              /\ balances[n].amount <= -Eps(scale)
                    <=> balances[n].person \in PersonsOf(debtors)
              /\ balances[n].amount >= Eps(scale)
                    <=> balances[n].person \in PersonsOf(creditors)

\* C8: each iteration pays from the unsettled debtor with the most negative
\* input amount to the unsettled creditor with the largest input amount, the
\* rounded minimum of their remaining amounts; a cursor moves forward only,
\* and only past a participant whose remaining amount is below 0.01.
GreedyStep ==
    (pc = "loop" /\ Len(settlements') = Len(settlements) + 1)
        => LET s == settlements'[Len(settlements')]
               OpenDebtors == {p \in Participants : Remaining(p) <= -Eps(scale)}
               OpenCreditors == {p \in Participants : Remaining(p) >= Eps(scale)}
           IN /\ s.from \in OpenDebtors
              /\ \A q \in OpenDebtors : ValueOf(balances, s.from) <= ValueOf(balances, q)
              /\ s.to \in OpenCreditors
              /\ \A q \in OpenCreditors : ValueOf(balances, s.to) >= ValueOf(balances, q)
              /\ s.amount = Round2(Min(Abs(Remaining(s.from)), Remaining(s.to)), scale)
              /\ i' \in {i, i + 1} /\ j' \in {j, j + 1}
              /\ i' # i => Abs(RemainingAfter(settlements', s.from)) < Eps(scale)
              /\ j' # j => Abs(RemainingAfter(settlements', s.to)) < Eps(scale)
GreedyOrder == [][GreedyStep]_vars
GreedyOrderWitness ==
    /\ pc = "done"
    /\ balances = Entries(<<Whole(-30), Whole(10), Whole(20)>>)
    /\ Len(settlements) = 2
    /\ settlements[1].from = "A" /\ settlements[1].to = "C"
    /\ settlements[1].amount = Whole(20)
    /\ settlements[2].from = "A" /\ settlements[2].to = "B"
    /\ settlements[2].amount = Whole(10)

\* C9 as stated: for a non-zero-sum input the unsettled residual is left on
\* the side whose list empties first.
ResidualOnExhaustedSide ==
    (pc = "done" /\ SumAmounts(balances) # 0)
        => \A p \in Participants :
              /\ Remaining(p) < -Eps(scale) => i = Len(debtors)
              /\ Remaining(p) > Eps(scale) => j = Len(creditors)
\* C9 amended: the loop ends by exhausting a list, and a residual above 0.01
\* is left on the side whose list was not exhausted: a debtor stays unsettled
\* only when the creditors ran out, a creditor only when the debtors ran out.
ResidualOnOtherSide ==
    (pc = "done" /\ SumAmounts(balances) # 0)
        => /\ i = Len(debtors) \/ j = Len(creditors)
           /\ \A p \in Participants :
                 /\ Remaining(p) < -Eps(scale)
                       => j = Len(creditors) /\ i < Len(debtors)
                 /\ Remaining(p) > Eps(scale)
                       => i = Len(debtors) /\ j < Len(creditors)
ResidualOnOtherSideWitness ==
    /\ pc = "done"
    /\ SumAmounts(balances) # 0
    /\ Len(settlements) >= 1
    /\ \E p \in Participants : Remaining(p) > Eps(scale)

\* C10: the balances the settle route passes to simplifyDebts sum to zero,
\* for every trip with at least one participant and every stored expense.
RouteBalancesZeroSum ==
    (pc \in {"start", "loop", "done"} /\ trip.exists /\ Len(trip.participants) >= 1)
        => SumAmounts(balances) = 0

====
